---- MODULE Spec2Model ----
(***************************************************************************)
(* Model of src/main.py: the four-stage human-in-the-loop pipeline         *)
(* (module start-up, main, process_step) and the shell tool                *)
(* execute_terminal_command.                                               *)
(*                                                                         *)
(* The completion backend (Runner.run_streamed), genai.configure, input()  *)
(* and subprocess.run are the environment: each call is a nondeterministic *)
(* choice over the outcomes the call can have.                             *)
(***************************************************************************)
EXTENDS Integers, Sequences, FiniteSets, TLC

(* ---------------------------- bounds ----------------------------------- *)

\* clarification round-trips followed within one run
MaxRounds == 2

\* longest command string handed to execute_terminal_command
MaxCmdLen == 3

(* ------------------------ sequences helpers ---------------------------- *)

IsPrefix(s, t) == /\ Len(s) <= Len(t)
                  /\ \A i \in 1..Len(s) : s[i] = t[i]

Last(s) == s[Len(s)]

RECURSIVE SelectKinds(_, _)
\* the sub-sequence of the log entries whose kind is in kinds
SelectKinds(log, kinds) ==
    IF log = <<>> THEN <<>>
    ELSE IF Head(log)[1] \in kinds
         THEN <<Head(log)>> \o SelectKinds(Tail(log), kinds)
         ELSE SelectKinds(Tail(log), kinds)

(* --------------------------- the pipeline ------------------------------ *)

VARIABLES
    pc,          \* control position of the process
    api_key,     \* what os.getenv("GEMINI_API_KEY") yields: valid, invalid, missing
    agents,      \* the Agent objects constructed at module level
    stage,       \* number of the stage main is in (0 before the first)
    messages,    \* the variable `messages` of main / process_step
    result,      \* the variable `result` of process_step
    results,     \* result_1 .. result_4 of main
    calls,       \* history: every Runner.run_streamed(agent, messages) made
    reads,       \* history: every line returned by input()
    out,         \* history: what was written to stdout and the calls of process_step
    exit_status, \* exit status of the process, -1 while it runs
    command,     \* execute_terminal_command: the argument
    outcome,     \* execute_terminal_command: what subprocess.run does
    tool_pc,     \* execute_terminal_command: idle, called, returned, raised
    tool_ret     \* execute_terminal_command: the value returned

vars == <<pc, api_key, agents, stage, messages, result, results, calls, reads,
          out, exit_status, command, outcome, tool_pc, tool_ret>>

pipeline_vars == <<pc, api_key, agents, stage, messages, result, results, calls,
                   reads, out, exit_status>>

tool_vars == <<command, outcome, tool_pc, tool_ret>>

KeyStates == {"valid", "invalid", "missing"}

\* a slip in main: the Executor is run before the Planner
StageAgent_Swapped == <<"analyzer_agent", "executor_agent", "planner_agent", "qc_agent">>

\* the agent handed to process_step by the n-th stage of main
StageAgent == <<"analyzer_agent", "planner_agent", "executor_agent", "qc_agent">>

\* the prompt appended by main for the n-th stage
StagePrompt == <<"ANALYZER_PROMPT", "PLANNER_PROMPT", "EXECUTOR_PROMPT", "QC_PROMPT">>

\* the banner printed by main before the n-th stage
StageBanner == <<"----- STARTING ANALYSIS -----", "----- STARTING PLANNING -----",
                 "----- STARTING EXECUTION -----", "----- STARTING QUALITY CHECK -----">>

NumStages == Len(StageAgent)

AllAgents == {StageAgent[n] : n \in 1..NumStages}

\* {'role': 'user', 'content': c}
UserMsg(c) == [role |-> "user", content |-> c]

\* lines the user may type at the "User Response >> " prompt
Lines == {"yes", ""}

\* the items one Role invocation adds to the transcript: its final answer,
\* preceded by the calls of the tools the Role made and their outputs (all four
\* Roles have the tools; the model lets the Role that executes the plan use one)
Turns(agent) ==
    IF agent = "executor_agent"
    THEN { << [role |-> "assistant", content |-> "tool_called"],
              [role |-> "tool", content |-> "tool_output"],
              [role |-> "assistant", content |-> agent] >> }
    ELSE { << [role |-> "assistant", content |-> agent] >> }

\* the structured outputs a Role may return (the fields the program reads,
\* and the satisfiability verdict of the schema)
Outputs(agent) ==
    IF agent = "qc_agent"
    THEN [any_user_input_required : BOOLEAN, all_requirements_satisfied : BOOLEAN]
    ELSE [any_user_input_required : BOOLEAN, can_satisfy_all_requirements : BOOLEAN]

NoResult == [agent |-> "none", input |-> <<>>, new_items |-> <<>>,
             final_output |-> [any_user_input_required |-> FALSE]]

\* result.to_input_list(): the input of the run followed by the items the run produced
to_input_list(r) == r.input \o r.new_items

\* slips in process_step's loop condition: never looping, looping forever, and
\* looping only while the requirements are reported satisfiable
NeedsUserInput_Never(r) == FALSE

NeedsUserInput_Always(r) == TRUE

NeedsUserInput_UnlessInfeasible(r) ==
    /\ r.final_output.any_user_input_required
    /\ r.agent # "qc_agent" => r.final_output.can_satisfy_all_requirements

\* the condition of the `if` in process_step's loop
NeedsUserInput(r) == r.final_output.any_user_input_required

\* a re-planning loop: a QC report with unmet requirements re-enters Planning
AfterStage_Replan(n, r) ==
    IF n < NumStages THEN n + 1
    ELSE IF r.final_output.all_requirements_satisfied THEN 0 ELSE 2

\* the stage main goes to when process_step has returned r for stage n
\* (0: none, the completion message is printed); main is straight-line code
\* and does not look at r
AfterStage(n, r) == IF n < NumStages THEN n + 1 ELSE 0

\* a slip in main: the next stage starts from its prompt alone
NextStageMessages_Fresh(r, prompt) == <<UserMsg(prompt)>>

\* what main makes of `messages` for the next stage
NextStageMessages(r, prompt) == Append(to_input_list(r), UserMsg(prompt))

\* a slip in process_step: the answer is appended to the old `messages`, so the
\* Role's own turn is lost
ClarifiedMessages_DropsTurn(r, user_input) == Append(r.input, UserMsg(user_input))

\* what process_step makes of `messages` for the re-invocation
ClarifiedMessages(r, user_input) == Append(to_input_list(r), UserMsg(user_input))

Init ==
    /\ pc = "configure"
    /\ api_key \in KeyStates
    /\ agents = {}
    /\ stage = 0
    /\ messages = <<>>
    /\ result = NoResult
    /\ results = <<>>
    /\ calls = <<>>
    /\ reads = <<>>
    /\ out = <<>>
    /\ exit_status = -1
    /\ command = <<>>
    /\ outcome = [kind |-> "none", stdout |-> <<>>, stderr |-> <<>>, returncode |-> 0]
    /\ tool_pc = "idle"
    /\ tool_ret = [raised |-> "none", stdout |-> <<>>, stderr |-> <<>>, return_code |-> 0]

\* genai.configure(api_key=os.getenv("GEMINI_API_KEY")) returns; the program
\* does not look at the key itself, and whether the call raises for a given key
\* is the library's decision
ConfigureOk ==
    /\ pc = "configure"
    /\ pc' = "construct"
    /\ UNCHANGED <<api_key, agents, stage, messages, result, results, calls,
                   reads, out, exit_status>>
    /\ UNCHANGED tool_vars

\* genai.configure raises: the message is printed and sys.exit(1) is called
ConfigureFails ==
    /\ pc = "configure"
    /\ out' = Append(out, <<"print", "Error configuring Gemini API">>)
    /\ exit_status' = 1
    /\ pc' = "exited"
    /\ UNCHANGED <<api_key, agents, stage, messages, result, results, calls, reads>>
    /\ UNCHANGED tool_vars

\* the model and the four Agent objects are constructed
ConstructAgents ==
    /\ pc = "construct"
    /\ agents' = AllAgents
    /\ pc' = "main"
    /\ UNCHANGED <<api_key, stage, messages, result, results, calls, reads,
                   out, exit_status>>
    /\ UNCHANGED tool_vars

\* main: the first transcript, the banner, and the call of process_step
MainStart ==
    /\ pc = "main"
    /\ stage' = 1
    /\ messages' = <<UserMsg(StagePrompt[1])>>
    /\ out' = out \o << <<"print", StageBanner[1]>>, <<"enter", StageAgent[1]>> >>
    /\ pc' = "invoke"
    /\ UNCHANGED <<api_key, agents, result, results, calls, reads, exit_status>>
    /\ UNCHANGED tool_vars

\* process_step: Runner.run_streamed(agent, messages) completes, its events are
\* printed, and the final output is inspected
RunRole ==
    /\ pc = "invoke"
    /\ \E items \in Turns(StageAgent[stage]), fo \in Outputs(StageAgent[stage]) :
         LET r == [agent |-> StageAgent[stage], input |-> messages,
                   new_items |-> items, final_output |-> fo]
         IN /\ NeedsUserInput(r) => Len(reads) < MaxRounds
            /\ result' = r
            /\ calls' = Append(calls, r)
            /\ IF NeedsUserInput(r)
               THEN /\ out' = out \o << <<"stream", r.agent>>, <<"question", r.agent>> >>
                    /\ pc' = "input"
               ELSE /\ out' = out \o << <<"stream", r.agent>>, <<"print", "\n">>,
                                        <<"return", r.agent>> >>
                    /\ pc' = "returned"
    /\ UNCHANGED <<api_key, agents, stage, messages, results, reads, exit_status>>
    /\ UNCHANGED tool_vars

\* process_step: input() returns a line, which is appended to the transcript
ReadUserInput ==
    /\ pc = "input"
    /\ \E user_input \in Lines :
         /\ reads' = Append(reads, user_input)
         /\ messages' = ClarifiedMessages(result, user_input)
    /\ pc' = "invoke"
    /\ UNCHANGED <<api_key, agents, stage, result, results, calls, out, exit_status>>
    /\ UNCHANGED tool_vars

\* a handler in process_step that reports the fault and invokes the Role again
BackendFault_Retried ==
    /\ pc = "invoke"
    /\ Len(SelectKinds(out, {"fault"})) < 2
    /\ out' = Append(out, <<"fault", StageAgent[stage]>>)
    /\ pc' = "invoke"
    /\ UNCHANGED <<api_key, agents, stage, messages, result, results, calls, reads,
                   exit_status>>
    /\ UNCHANGED tool_vars

\* the completion backend raises during a Role invocation: neither process_step
\* nor main has a handler, asyncio.run re-raises and the interpreter exits with 1
BackendFault ==
    /\ pc = "invoke"
    /\ out' = Append(out, <<"fault", StageAgent[stage]>>)
    /\ exit_status' = 1
    /\ pc' = "crashed"
    /\ UNCHANGED <<api_key, agents, stage, messages, result, results, calls, reads>>
    /\ UNCHANGED tool_vars

\* input() raises (end of input): not handled either
InputFault ==
    /\ pc = "input"
    /\ out' = Append(out, <<"fault", "input">>)
    /\ exit_status' = 1
    /\ pc' = "crashed"
    /\ UNCHANGED <<api_key, agents, stage, messages, result, results, calls, reads>>
    /\ UNCHANGED tool_vars

\* main after process_step returned: the output is printed; then either the
\* next stage is seeded and started, or the completion message is printed
MainNext ==
    /\ pc = "returned"
    /\ results' = Append(results, result)
    /\ LET nxt == AfterStage(stage, result)
       IN IF nxt # 0
          THEN /\ messages' = NextStageMessages(result, StagePrompt[nxt])
               /\ out' = out \o << <<"output", result.agent>>,
                                   <<"print", StageBanner[nxt]>>,
                                   <<"enter", StageAgent[nxt]>> >>
               /\ stage' = nxt
               /\ pc' = "invoke"
               /\ UNCHANGED exit_status
          ELSE /\ out' = out \o << <<"output", result.agent>>,
                                   <<"print", "----- WORKFLOW COMPLETE -----">> >>
               /\ exit_status' = 0
               /\ pc' = "done"
               /\ UNCHANGED <<messages, stage>>
    /\ UNCHANGED <<api_key, agents, result, calls, reads>>
    /\ UNCHANGED tool_vars

Next ==
    \/ ConfigureOk
    \/ ConfigureFails
    \/ ConstructAgents
    \/ MainStart
    \/ RunRole
    \/ ReadUserInput
    \/ BackendFault
    \/ InputFault
    \/ MainNext

Spec == Init /\ [][Next]_vars

\* The process is sequential and keeps running: every step of the program is
\* eventually taken, input() eventually returns or raises, and (the hypothesis
\* of termination) a Role that is invoked again and again eventually
\* returns an output that does not ask for input.  A fault is never forced.
LiveSpec ==
    /\ Spec
    /\ WF_vars(ConfigureOk \/ ConfigureFails)
    /\ WF_vars(ConstructAgents)
    /\ WF_vars(MainStart)
    /\ WF_vars(ReadUserInput \/ InputFault)
    /\ WF_vars(MainNext)
    /\ SF_vars(RunRole /\ pc' = "returned")

(* ------------------------ properties of the pipeline -------------------- *)

Asks(i) == calls[i].final_output.any_user_input_required

\* the calls and returns of process_step, in the order they happened
StageLog == SelectKinds(out, {"enter", "return"})

ExpectedStageLog ==
    << <<"enter", "analyzer_agent">>, <<"return", "analyzer_agent">>,
       <<"enter", "planner_agent">>, <<"return", "planner_agent">>,
       <<"enter", "executor_agent">>, <<"return", "executor_agent">>,
       <<"enter", "qc_agent">>, <<"return", "qc_agent">> >>

\* C1: process_step is entered with analyzer_agent, planner_agent,
\* executor_agent, qc_agent in this order, each only after the previous call
\* returned, and a run that reaches completion has made exactly these four calls.
C1_StageOrder ==
    /\ IsPrefix(StageLog, ExpectedStageLog)
    /\ pc = "done" => StageLog = ExpectedStageLog

C1_Witness == pc = "done" /\ Len(reads) = MaxRounds

\* C2: after a Role invocation whose output has any_user_input_required the
\* next invocation is of the same Role, and no result returned by process_step
\* has any_user_input_required.
C2_NoAdvanceWhileAsking ==
    /\ \A i \in 1..(Len(calls) - 1) : Asks(i) => calls[i + 1].agent = calls[i].agent
    /\ \A k \in 1..Len(results) : ~results[k].final_output.any_user_input_required
    /\ pc = "returned" => ~result.final_output.any_user_input_required
    /\ Len(calls) > 0 /\ Asks(Len(calls)) => pc \in {"input", "invoke", "crashed"}

C2_Witness ==
    /\ Len(results) >= 2
    /\ \E i \in 1..(Len(calls) - 1) : Asks(i) /\ calls[i].agent = "planner_agent"

\* the number of invocations up to the i-th that asked for user input
RoundOf(i) == Cardinality({j \in 1..i : Asks(j)})

\* C3: a clarification round-trip reads exactly one line and the transcript
\* of the re-invocation is the previous input, then the Role's turn, then one
\* user message holding that line.
C3_OneUserMessagePerRound ==
    /\ \A i \in 1..(Len(calls) - 1) :
         Asks(i) =>
           /\ RoundOf(i) <= Len(reads)
           /\ calls[i + 1].input =
                calls[i].input \o calls[i].new_items
                  \o << [role |-> "user", content |-> reads[RoundOf(i)]] >>
    /\ Len(reads) <= RoundOf(Len(calls))
    /\ Len(reads) >= RoundOf(Len(calls)) - 1
    /\ pc = "input" => Len(reads) = RoundOf(Len(calls)) - 1
    /\ pc \in {"invoke", "returned", "done"} => Len(reads) = RoundOf(Len(calls))
    /\ pc = "invoke" /\ Len(calls) > 0 /\ Asks(Len(calls)) =>
         messages = Last(calls).input \o Last(calls).new_items
                      \o << [role |-> "user", content |-> Last(reads)] >>

C3_Witness ==
    /\ Len(reads) = MaxRounds
    /\ \E i \in 1..(Len(calls) - 1) :
         Asks(i) /\ Len(calls[i].new_items) > 1 /\ reads[RoundOf(i)] = "yes"

ExpectedPrompts == <<"ANALYZER_PROMPT", "PLANNER_PROMPT", "EXECUTOR_PROMPT", "QC_PROMPT">>

\* the number of invocations up to the i-th that ended a stage
FinalsUpTo(i) == Cardinality({j \in 1..i : ~Asks(j)})

\* C4: the first transcript is one user message with the Analysis prompt; a
\* later stage starts from the previous stage's finalized transcript followed by
\* one user message with its prompt; every invocation's transcript, with the
\* turn it produced, is a prefix of the transcript of every later invocation.
C4_TranscriptAppendOnly ==
    /\ Len(calls) > 0 =>
         calls[1].input = << [role |-> "user", content |-> "ANALYZER_PROMPT"] >>
    /\ \A i \in 1..(Len(calls) - 1) :
         ~Asks(i) =>
           calls[i + 1].input =
             calls[i].input \o calls[i].new_items
               \o << [role |-> "user", content |-> ExpectedPrompts[FinalsUpTo(i) + 1]] >>
    /\ \A i \in 1..(Len(calls) - 1) :
         IsPrefix(calls[i].input \o calls[i].new_items, calls[i + 1].input)
    /\ \A i \in 1..Len(calls) :
         /\ \A j \in (i + 1)..Len(calls) : IsPrefix(calls[i].input, calls[j].input)
         /\ IsPrefix(calls[i].input, messages)

C4_Witness ==
    /\ Len(calls) > NumStages
    /\ Last(calls).agent = "qc_agent"
    /\ \E i \in 1..Len(calls) : Asks(i) /\ calls[i].agent = "analyzer_agent"

\* C6: a run whose GEMINI_API_KEY is missing or invalid ends at start-up with a
\* non-zero exit status and a diagnostic, before any Agent is constructed or
\* invoked and before any stage is started.
C6_BadKeyExits ==
    api_key # "valid" /\ pc # "configure" =>
      /\ pc = "exited"
      /\ exit_status > 0
      /\ out = << <<"print", "Error configuring Gemini API">> >>
      /\ agents = {}
      /\ calls = <<>>
      /\ stage = 0

CompletionTail ==
    << <<"output", "qc_agent">>, <<"print", "----- WORKFLOW COMPLETE -----">> >>

\* C7: once process_step has returned for the QC stage, the only things that
\* still happen are the printing of the QC result and then of the completion
\* message, whatever the QC output says; no Role is invoked and no stage is
\* entered again.
C7_HaltsAfterQC ==
    /\ \A i \in 1..Len(out) :
         out[i] = <<"return", "qc_agent">> =>
           /\ IsPrefix(SubSeq(out, i + 1, Len(out)), CompletionTail)
           /\ pc \in {"returned", "done"}
           /\ pc = "done" => SubSeq(out, i + 1, Len(out)) = CompletionTail
           /\ Len(calls) > 0 /\ Last(calls).agent = "qc_agent" /\ ~Asks(Len(calls))
    /\ pc = "done" =>
         /\ Len(results) = 4
         /\ results[4] = Last(calls)
         /\ exit_status = 0

C7_Witness ==
    /\ pc = "done"
    /\ ~results[4].final_output.all_requirements_satisfied

Infeasible(r) ==
    /\ r.agent # "qc_agent"
    /\ ~r.final_output.can_satisfy_all_requirements

C9_TerminatesOnlyWhenRoleStopsAsking ==
    /\ ([](pc \notin {"crashed", "exited"})) => <>(pc = "done")
    /\ [][pc # "returned" /\ pc' = "returned" =>
            /\ Len(calls') = Len(calls) + 1
            /\ ~Last(calls').final_output.any_user_input_required]_vars
    /\ [][pc = "invoke" /\ Len(calls') = Len(calls) + 1
            /\ Last(calls').final_output.any_user_input_required =>
              /\ pc' = "input"
              /\ stage' = stage
              /\ results' = results]_vars

C9_Witness ==
    /\ pc = "done"
    /\ Len(reads) = MaxRounds
    /\ \A i \in 1..MaxRounds : Asks(i) /\ calls[i].agent = "analyzer_agent"

\* C10: a fault of the completion backend is the last thing that happens in
\* the run: nothing is printed, read or invoked after it, the completion message
\* is not among the output, and the process ends with a non-zero status.
C10_BackendFaultEndsRun ==
    \A i \in 1..Len(out) :
      out[i][1] = "fault" /\ out[i][2] \in AllAgents =>
        /\ i = Len(out)
        /\ pc = "crashed"
        /\ exit_status = 1
        /\ \A j \in 1..Len(out) : out[j] # <<"print", "----- WORKFLOW COMPLETE -----">>
        /\ Len(SelectKinds(out, {"stream"})) = Len(calls)
        /\ Len(SelectKinds(out, {"question"})) = RoundOf(Len(calls))

C10_Witness ==
    /\ pc = "crashed"
    /\ Last(out) = <<"fault", "executor_agent">>
    /\ Len(reads) > 0

(* ------------------------- the shell tool ------------------------------- *)

\* strings are sequences of characters; a message literal is one element
Chars == {"l", " "}

Commands == UNION { [1..n -> Chars] : n \in 0..MaxCmdLen }

IsSpace(c) == c = " "

RECURSIVE SkipSpaces(_)
SkipSpaces(s) == IF s # <<>> /\ IsSpace(Head(s)) THEN SkipSpaces(Tail(s)) ELSE s

RECURSIVE TakeWord(_)
TakeWord(s) == IF s = <<>> \/ IsSpace(Head(s)) THEN <<>>
               ELSE <<Head(s)>> \o TakeWord(Tail(s))

RECURSIVE split(_)
\* str.split(): the maximal runs of non-whitespace characters
split(s) ==
    LET t == SkipSpaces(s)
        w == TakeWord(t)
    IN IF t = <<>> THEN <<>>
       ELSE <<w>> \o split(SubSeq(t, Len(w) + 1, Len(t)))

\* the texts a process may leave on a stream
Streams == { <<>>, <<"h", "i">> }

\* what subprocess.run(command, shell=True, capture_output=True, text=True) can do:
\* complete with the process's streams and exit code, raise FileNotFoundError
\* (no shell to run), or raise another Exception
RunOutcomes ==
    [kind : {"completed"}, stdout : Streams, stderr : Streams, returncode : {0, 1, 127}]
    \cup
    [kind : {"FileNotFoundError", "Exception"}, stdout : {<<>>}, stderr : {<<>>},
     returncode : {0}]

Returned(so, se, rc) ==
    [raised |-> "none", stdout |-> so, stderr |-> se, return_code |-> rc]

Raised(exc) ==
    [raised |-> exc, stdout |-> <<>>, stderr |-> <<>>, return_code |-> 0]

\* the body of execute_terminal_command, as a function of its argument and of
\* what subprocess.run does
execute_terminal_command(cmd, oc) ==
    IF oc.kind = "completed"
    THEN Returned(oc.stdout, oc.stderr, oc.returncode)
    ELSE IF oc.kind = "FileNotFoundError"
    THEN \* command.split()[0] if command else ''
         IF cmd = <<>>
         THEN Returned(<<>>, <<"Error: The shell or command '", "' was not found.">>, 127)
         ELSE IF split(cmd) = <<>>
         THEN Raised("IndexError")
         ELSE Returned(<<>>, <<"Error: The shell or command '">> \o split(cmd)[1]
                             \o <<"' was not found.">>, 127)
    ELSE Returned(<<>>, <<"An unexpected error occurred while executing '">> \o cmd
                        \o <<"': ", "e">>, -1)

InitTool ==
    /\ pc = "configure"
    /\ api_key = "valid"
    /\ agents = {}
    /\ stage = 0
    /\ messages = <<>>
    /\ result = NoResult
    /\ results = <<>>
    /\ calls = <<>>
    /\ reads = <<>>
    /\ out = <<>>
    /\ exit_status = -1
    /\ command \in Commands
    /\ outcome \in RunOutcomes
    /\ tool_pc = "called"
    /\ tool_ret = Raised("none")

\* one call of the tool runs to its return or to the exception that leaves it
CallTool ==
    /\ tool_pc = "called"
    /\ tool_ret' = execute_terminal_command(command, outcome)
    /\ tool_pc' = IF tool_ret'.raised = "none" THEN "returned" ELSE "raised"
    /\ UNCHANGED <<command, outcome>>
    /\ UNCHANGED pipeline_vars

NextTool == CallTool

SpecTool == InitTool /\ [][NextTool]_vars

(* ------------------------ properties of the tool ------------------------ *)

\* C5: every call returns the structured result: the process's own streams
\* and exit code when the command ran, return_code 127 on FileNotFoundError and
\* -1 on any other exception, both with empty stdout and non-empty stderr; no
\* exception leaves the function.
C5_AlwaysReturnsResult ==
    tool_pc \notin {"idle", "called"} =>
      /\ tool_pc = "returned"
      /\ tool_ret.raised = "none"
      /\ outcome.kind = "completed" =>
           /\ tool_ret.stdout = outcome.stdout
           /\ tool_ret.stderr = outcome.stderr
           /\ tool_ret.return_code = outcome.returncode
      /\ outcome.kind = "FileNotFoundError" =>
           /\ tool_ret.return_code = 127
           /\ tool_ret.stdout = <<>>
           /\ tool_ret.stderr # <<>>
      /\ outcome.kind = "Exception" =>
           /\ tool_ret.return_code = -1
           /\ tool_ret.stdout = <<>>
           /\ tool_ret.stderr # <<>>

====
